---- MODULE Spec2Model ----
(***************************************************************************)
(* A model of streamtos3.py: streaming an input to S3 by multipart upload. *)
(* One run of upload() is modelled, from check_file_or_stdin to the        *)
(* process exit.  The S3 client is the environment: each of its calls      *)
(* either returns or raises botocore.exceptions.ClientError.               *)
(***************************************************************************)
EXTENDS Integers, Sequences, FiniteSets, TLC

\* ---- bounds of the model ----
MaxLen == 3
MaxChunk == 3
MaxRetry == 3

SessionIds == {1, 2}

VARIABLES
    input,        \* the bytes the stream will deliver
    chunksize,    \* --chunksize
    retry,        \* --retry
    isatty,       \* sys.stdin.isatty()
    infile,       \* "-" or a path
    pc,           \* position of the run
    is_stdin,     \* result of check_file_or_stdin
    pos,          \* read cursor of buf
    upload_id, num, chunk, part_md5sum, parts, hashes, in_md5sum,
    upload_try,   \* value of upload_try (meaningful when bound_try)
    bound_try,    \* whether the local upload_try has been assigned
    session,      \* backend multipart session: none / open / completed / aborted
    sessionId,    \* the UploadId the backend handed out (0: none)
    reads,        \* number of buf.read calls made
    createCalls,  \* number of create_multipart_upload calls
    uploadCalls,  \* log of upload_part calls
    completeCalls,\* log of complete_multipart_upload calls
    abortCalls,   \* log of abort_multipart_upload calls
    headCalls,    \* number of head_object calls made by check_integrity
    exitcode,     \* process exit status, NoExit while running
    error,        \* which exit site ended the run
    remote_etag,  \* response["ETag"] seen by check_integrity
    checks        \* log of the checks passed before do_upload

vars == <<input, chunksize, retry, isatty, infile, pc, is_stdin, pos,
          upload_id, num, chunk, part_md5sum, parts, hashes, in_md5sum,
          upload_try, bound_try, session, sessionId, reads, createCalls,
          uploadCalls, completeCalls, abortCalls, headCalls, exitcode, error,
          remote_etag, checks>>

NoExit == 0 - 1

\* ---- the inputs of the model: for each length the stream whose bytes are
\* all different and the stream whose bytes are all equal (equal chunks) ----
Ramp(n) == [i \in 1..n |-> i]
Zeros(n) == [i \in 1..n |-> 0]
Inputs == UNION {{Ramp(n), Zeros(n)} : n \in 0..MaxLen}

Min(a, b) == IF a < b THEN a ELSE b

\* buf.read(n) at cursor p: up to n bytes, fewer only at end of stream
Read(data, p, n) == SubSeq(data, p + 1, Min(p + n, Len(data)))

\* ---- hashlib.md5, as an ideal hash: a hash object is the data fed to it ----
md5(data) == [fed |-> data]
\* variant of update that forgets what was fed before
updateLast(h, data) == [fed |-> data]
update(h, data) == [fed |-> h.fed \o data]
digest(h) == <<"raw", h.fed>>
hexdigest(h) == << <<"hex", h.fed>> >>
b64encode(d) == <<"b64", d>>

\* ---- strings are sequences of tokens; an ETag is a quoted string ----
QuoteChar == <<"quote", <<>>>>
Quoted(s) == <<QuoteChar>> \o s \o <<QuoteChar>>
\* s[1:-1]
Slice1(s) == SubSeq(s, 2, Len(s) - 1)
\* s.strip('""'): drop every leading and trailing quote character
RECURSIVE LStrip(_)
LStrip(s) == IF s # <<>> /\ Head(s) = QuoteChar THEN LStrip(Tail(s)) ELSE s
RECURSIVE RStrip(_)
RStrip(s) ==
    IF s # <<>> /\ s[Len(s)] = QuoteChar THEN RStrip(SubSeq(s, 1, Len(s) - 1)) ELSE s
Strip(s) == RStrip(LStrip(s))

\* b"".join([h.digest() for h in hashes])
RECURSIVE JoinDigests(_)
JoinDigests(hs) == IF hs = <<>> THEN <<>> ELSE <<digest(Head(hs))>> \o JoinDigests(Tail(hs))

\* variant of FormatEtag that leaves the part count out of the local tag
FormatEtagNoCount(hex, n) == hex \o << <<"dash", <<>>>>, <<"int", <<0>>>> >>

\* f"{md5_of_md5s}-{len(hashes)}"
FormatEtag(hex, n) == hex \o << <<"dash", <<>>>>, <<"int", <<n>>>> >>
LocalEtag(hs) == FormatEtag(hexdigest(md5(JoinDigests(hs))), Len(hs))

Reverse(s) == [i \in 1..Len(s) |-> s[Len(s) + 1 - i]]

\* the tag S3 returns for a part whose stored bytes differ from the chunk
CorruptTag(c) == Quoted(hexdigest(md5(c \o <<0>>)))
GoodTag(c) == Quoted(hexdigest(md5(c)))

Running == exitcode = NoExit

\* the status each exit site passes to sys.exit; an uncaught exception
\* (UnboundLocalError, a ClientError raised by the abort, an OSError raised
\* by open) ends the process
\* with the interpreter's status 1
ExitCode(kind) ==
    CASE kind = "Success" -> 0
      [] kind = "InputError" -> 1
      [] kind = "KeyfileUnreadable" -> 2
      [] kind = "KeyfileMalformed" -> 3
      [] kind = "ConnectionFailed" -> 4
      [] kind = "BucketUnavailable" -> 5
      [] kind = "ObjectExists" -> 6
      [] kind = "SessionInitFailed" -> 7
      [] kind = "PartUploadFailed" -> 8
      [] kind = "CompleteFailed" -> 8
      [] kind = "ObjectNotFound" -> 8
      [] kind = "IntegrityMismatch" -> 1
      [] kind = "UnboundLocalError" -> 1
      [] kind = "AbortClientError" -> 1
      [] kind = "InputOpenError" -> 1

Exit(kind) ==
    /\ exitcode' = ExitCode(kind)
    /\ error' = kind
    /\ pc' = "exited"

Init ==
    /\ input \in Inputs
    /\ chunksize \in 1..MaxChunk
    /\ retry \in 0..MaxRetry
    /\ isatty \in BOOLEAN
    /\ infile \in {"-", "path"}
    /\ pc = "check_file_or_stdin"
    /\ is_stdin = FALSE
    /\ pos = 0
    /\ upload_id = NoExit
    /\ num = 0
    /\ chunk = <<>>
    /\ part_md5sum = md5(<<>>)
    /\ parts = <<>>
    /\ hashes = <<>>
    /\ in_md5sum = md5(<<>>)
    /\ upload_try = 0
    /\ bound_try = FALSE
    /\ session = "none"
    /\ sessionId = 0
    /\ reads = 0
    /\ createCalls = 0
    /\ uploadCalls = <<>>
    /\ completeCalls = <<>>
    /\ abortCalls = <<>>
    /\ headCalls = 0
    /\ exitcode = NoExit
    /\ error = "none"
    /\ remote_etag = <<>>
    /\ checks = <<>>

envVars == <<input, chunksize, retry, isatty, infile>>
localVars == <<upload_id, num, chunk, part_md5sum, parts, hashes, in_md5sum,
               upload_try, bound_try>>
backendVars == <<session, sessionId, createCalls, uploadCalls, completeCalls,
                 abortCalls, headCalls>>

\* check_file_or_stdin(infile)
CheckFileOrStdin ==
    /\ pc = "check_file_or_stdin"
    /\ IF isatty
       THEN IF infile # "-"
            THEN /\ is_stdin' = FALSE
                 /\ checks' = Append(checks, "input:file")
                 /\ pc' = "parse_keyfile"
                 /\ UNCHANGED <<exitcode, error>>
            ELSE /\ Exit("InputError")
                 /\ UNCHANGED <<is_stdin, checks>>
       ELSE IF infile # "-"
            THEN /\ Exit("InputError")
                 /\ UNCHANGED <<is_stdin, checks>>
            ELSE /\ is_stdin' = TRUE
                 /\ checks' = Append(checks, "input:stdin")
                 /\ pc' = "parse_keyfile"
                 /\ UNCHANGED <<exitcode, error>>
    /\ UNCHANGED <<envVars, localVars, backendVars, pos, reads>>
    /\ UNCHANGED remote_etag

\* parse_keyfile(keyfile): readable and well-formed, IOError, or ValueError
ParseKeyfile ==
    /\ pc = "parse_keyfile"
    /\ \E r \in {"ok", "IOError", "ValueError"} :
         CASE r = "ok" -> /\ pc' = "boto3_client"
                          /\ checks' = Append(checks, "keyfile:ok")
                          /\ UNCHANGED <<exitcode, error>>
           [] r = "IOError" -> Exit("KeyfileUnreadable") /\ UNCHANGED checks
           [] r = "ValueError" -> Exit("KeyfileMalformed") /\ UNCHANGED checks
    /\ UNCHANGED <<envVars, localVars, backendVars, pos, reads, is_stdin>>
    /\ UNCHANGED remote_etag

\* create_client: boto3.client(...)
Boto3Client ==
    /\ pc = "boto3_client"
    /\ \E ok \in BOOLEAN :
         IF ok THEN /\ pc' = "head_bucket"
                    /\ checks' = Append(checks, "client:ok")
                    /\ UNCHANGED <<exitcode, error>>
         ELSE Exit("ConnectionFailed") /\ UNCHANGED checks
    /\ UNCHANGED <<envVars, localVars, backendVars, pos, reads, is_stdin>>
    /\ UNCHANGED remote_etag

\* create_client: client.head_bucket(Bucket=bucket)
HeadBucket ==
    /\ pc = "head_bucket"
    /\ \E ok \in BOOLEAN :
         IF ok THEN /\ pc' = "head_object"
                    /\ checks' = Append(checks, "head_bucket:ok")
                    /\ UNCHANGED <<exitcode, error>>
         ELSE Exit("BucketUnavailable") /\ UNCHANGED checks
    /\ UNCHANGED <<envVars, localVars, backendVars, pos, reads, is_stdin>>
    /\ UNCHANGED remote_etag

\* variant of HeadObjectExists that goes on when the object exists
HeadObjectExistsIgnored ==
    /\ pc = "head_object"
    /\ \E exists \in BOOLEAN :
         checks' = Append(checks, IF exists THEN "head_object:exists"
                                            ELSE "head_object:absent")
    /\ pc' = "open_input"
    /\ UNCHANGED <<envVars, localVars, backendVars, pos, reads, is_stdin,
                   exitcode, error, remote_etag>>

\* create_client: client.head_object(Bucket=bucket, Key=obj); success means
\* the object exists, ClientError is the expected case
HeadObjectExists ==
    /\ pc = "head_object"
    /\ \E exists \in BOOLEAN :
         IF exists THEN Exit("ObjectExists") /\ UNCHANGED checks
         ELSE /\ pc' = "open_input"
              /\ checks' = Append(checks, "head_object:absent")
              /\ UNCHANGED <<exitcode, error>>
    /\ UNCHANGED <<envVars, localVars, backendVars, pos, reads, is_stdin>>
    /\ UNCHANGED remote_etag

\* upload: "if is_stdin" hands sys.stdin.buffer to do_upload; otherwise
\* open(infile, "rb", buffering=chunksize), whose OSError (no such file,
\* no permission) is not caught
OpenInput ==
    /\ pc = "open_input"
    /\ IF is_stdin
       THEN /\ pc' = "create_multipart_upload"
            /\ UNCHANGED <<exitcode, error>>
       ELSE \E ok \in BOOLEAN :
              IF ok THEN /\ pc' = "create_multipart_upload"
                         /\ UNCHANGED <<exitcode, error>>
              ELSE Exit("InputOpenError")
    /\ UNCHANGED <<envVars, localVars, backendVars, pos, reads, is_stdin,
                   remote_etag, checks>>

\* variant of CreateMultipartUpload that carries on after a failed open
CreateMultipartUploadCarryOn ==
    /\ pc = "create_multipart_upload"
    /\ createCalls' = createCalls + 1
    /\ \/ \E sid \in SessionIds :
            /\ session' = "open"
            /\ sessionId' = sid
            /\ upload_id' = sid
       \/ UNCHANGED <<session, sessionId, upload_id>>
    /\ num' = 0
    /\ parts' = <<>>
    /\ hashes' = <<>>
    /\ in_md5sum' = md5(<<>>)
    /\ pc' = "read"
    /\ UNCHANGED <<envVars, is_stdin, pos, reads, chunk, part_md5sum, upload_try,
                   bound_try, uploadCalls, completeCalls, abortCalls, headCalls,
                   exitcode, error, remote_etag, checks>>

\* do_upload: client.create_multipart_upload(Bucket=bucket, Key=obj)
CreateMultipartUpload ==
    /\ pc = "create_multipart_upload"
    /\ createCalls' = createCalls + 1
    /\ \/ \E sid \in SessionIds :
            /\ session' = "open"
            /\ sessionId' = sid
            /\ upload_id' = sid
            /\ num' = 0
            /\ parts' = <<>>
            /\ hashes' = <<>>
            /\ in_md5sum' = md5(<<>>)
            /\ pc' = "read"
            /\ UNCHANGED <<exitcode, error>>
       \/ /\ Exit("SessionInitFailed")
          /\ UNCHANGED <<session, sessionId, upload_id, num, parts, hashes, in_md5sum>>
    /\ UNCHANGED <<envVars, is_stdin, pos, reads, chunk, part_md5sum, upload_try,
                   bound_try, uploadCalls, completeCalls, abortCalls, headCalls>>
    /\ UNCHANGED <<remote_etag, checks>>

\* do_upload: chunk = buf.read(chunksize) and the bookkeeping of a new part
ReadChunk ==
    /\ pc = "read"
    /\ reads' = reads + 1
    /\ LET c == Read(input, pos, chunksize) IN
         /\ chunk' = c
         /\ pos' = pos + Len(c)
         /\ IF c = <<>>
            THEN /\ pc' = "final_check"
                 /\ UNCHANGED <<num, in_md5sum, part_md5sum, hashes, upload_try, bound_try>>
            ELSE /\ num' = num + 1
                 /\ in_md5sum' = update(in_md5sum, c)
                 /\ part_md5sum' = md5(c)
                 /\ hashes' = Append(hashes, md5(c))
                 /\ upload_try' = 0
                 /\ bound_try' = TRUE
                 /\ pc' = "retry_loop"
    /\ UNCHANGED <<envVars, is_stdin, upload_id, parts, backendVars, exitcode, error>>
    /\ UNCHANGED <<remote_etag, checks>>

\* the entry appended to parts after upload_part returned
PartEntry(n, tag) == [PartNumber |-> n, ETag |-> tag]

\* variant of EtagMismatch that accepts every returned tag
EtagMismatchNever(tag, h) == FALSE

\* variant of EtagMismatch that rejects every returned tag
EtagMismatchAlways(tag, h) == TRUE

\* part["ETag"][1:-1] != part_md5sum.hexdigest()
EtagMismatch(tag, h) == Slice1(tag) # hexdigest(h)

\* do_upload: one pass of the body of "while upload_try < retry"
UploadPart ==
    /\ pc = "retry_loop"
    /\ upload_try < retry
    /\ upload_try' = upload_try + 1
    /\ \E r \in {"ClientError", "good", "corrupt"} :
         /\ uploadCalls' = Append(uploadCalls,
                [PartNumber |-> num, Body |-> chunk, ContentLength |-> Len(chunk),
                 ContentMD5 |-> b64encode(digest(part_md5sum)),
                 UploadId |-> upload_id, try |-> upload_try + 1, result |-> r])
         /\ IF r = "ClientError"
            THEN /\ pc' = "sleep"
                 /\ UNCHANGED parts
            ELSE LET tag == IF r = "good" THEN GoodTag(chunk) ELSE CorruptTag(chunk) IN
                 /\ parts' = Append(parts, PartEntry(num, tag))
                 /\ pc' = IF EtagMismatch(tag, part_md5sum) THEN "sleep" ELSE "read"
    /\ UNCHANGED <<envVars, is_stdin, pos, reads, upload_id, num, chunk, part_md5sum,
                   hashes, in_md5sum, bound_try, session, sessionId, createCalls,
                   completeCalls, abortCalls, headCalls, exitcode, error>>
    /\ UNCHANGED <<remote_etag, checks>>

\* do_upload: time.sleep(secs) in the except branch
Sleep ==
    /\ pc = "sleep"
    /\ pc' = "retry_loop"
    /\ UNCHANGED <<envVars, is_stdin, pos, reads, localVars, backendVars, exitcode, error>>
    /\ UNCHANGED <<remote_etag, checks>>

\* do_upload: "while upload_try < retry" is false, back to the outer loop
RetryLoopExit ==
    /\ pc = "retry_loop"
    /\ ~(upload_try < retry)
    /\ pc' = "read"
    /\ UNCHANGED <<envVars, is_stdin, pos, reads, localVars, backendVars, exitcode, error>>
    /\ UNCHANGED <<remote_etag, checks>>

\* upload_try >= retry, the test that chooses between clean_up and completion
NoSuccess(try, r) == try >= r

\* do_upload: "if upload_try >= retry" after the outer loop; upload_try is
\* unbound when no chunk was read, and the read raises UnboundLocalError
FinalCheck ==
    /\ pc = "final_check"
    /\ IF ~bound_try
       THEN Exit("UnboundLocalError")
       ELSE /\ pc' = IF NoSuccess(upload_try, retry) THEN "clean_up" ELSE "complete"
            /\ UNCHANGED <<exitcode, error>>
    /\ UNCHANGED <<envVars, is_stdin, pos, reads, localVars, backendVars>>
    /\ UNCHANGED <<remote_etag, checks>>

\* clean_up: client.abort_multipart_upload(...), then sys.exit(8); a
\* ClientError raised by the abort is not caught
CleanUp ==
    /\ pc = "clean_up"
    /\ \E ok \in BOOLEAN :
         /\ abortCalls' = Append(abortCalls, [UploadId |-> upload_id, ok |-> ok])
         /\ IF ok
            THEN /\ session' = IF upload_id = sessionId THEN "aborted" ELSE session
                 /\ Exit("PartUploadFailed")
            ELSE /\ UNCHANGED session
                 /\ Exit("AbortClientError")
    /\ UNCHANGED <<envVars, is_stdin, pos, reads, localVars, sessionId, createCalls,
                   uploadCalls, completeCalls, headCalls>>
    /\ UNCHANGED <<remote_etag, checks>>

\* variant of CompleteMultipartUpload that tries the completion again after
\* a failure
CompleteMultipartUploadAgain ==
    /\ pc = "complete"
    /\ \E ok \in BOOLEAN :
         /\ completeCalls' = Append(completeCalls,
                [UploadId |-> upload_id, Parts |-> parts, ok |-> ok])
         /\ IF ok
            THEN /\ session' = IF upload_id = sessionId THEN "completed" ELSE session
                 /\ pc' = "check_integrity"
                 /\ UNCHANGED <<exitcode, error>>
            ELSE /\ UNCHANGED session
                 /\ IF Len(completeCalls) = 0
                    THEN pc' = "complete" /\ UNCHANGED <<exitcode, error>>
                    ELSE Exit("CompleteFailed")
    /\ UNCHANGED <<envVars, is_stdin, pos, reads, localVars, sessionId, createCalls,
                   uploadCalls, abortCalls, headCalls, remote_etag, checks>>

\* do_upload: client.complete_multipart_upload(...)
CompleteMultipartUpload ==
    /\ pc = "complete"
    /\ \E ok \in BOOLEAN :
         /\ completeCalls' = Append(completeCalls,
                [UploadId |-> upload_id, Parts |-> parts, ok |-> ok])
         /\ IF ok
            THEN /\ session' = IF upload_id = sessionId THEN "completed" ELSE session
                 /\ pc' = "check_integrity"
                 /\ UNCHANGED <<exitcode, error>>
            ELSE /\ UNCHANGED session
                 /\ Exit("CompleteFailed")
    /\ UNCHANGED <<envVars, is_stdin, pos, reads, localVars, sessionId, createCalls,
                   uploadCalls, abortCalls, headCalls>>
    /\ UNCHANGED <<remote_etag, checks>>

\* the composite tag of an object assembled from parts: the checksum of the
\* parts' raw digests in index order, a dash, the number of parts
PartDigests(hs) == [i \in DOMAIN hs |-> <<"raw", hs[i].fed>>]
CompositeTag(ds, n) == << <<"hex", ds>>, <<"dash", <<>>>>, <<"int", <<n>>>> >>
S3Etag(hs) == CompositeTag(PartDigests(hs), Len(hs))

\* the tags head_object may report for the finished object: the composite
\* of the parts, quoted or bare, and tags altered in the order of the parts,
\* in the part count, or in the parts covered
RemoteEtags(hs) ==
    { Quoted(S3Etag(hs)),
      S3Etag(hs),
      Quoted(S3Etag(Reverse(hs))),
      Quoted(CompositeTag(PartDigests(hs), Len(hs) + 1)),
      Quoted(S3Etag(SubSeq(hs, 1, Len(hs) - 1))) }

\* check_integrity(client, bucket, obj, hashes) on a returned head_object
IntegrityOk(etag, hs) == ~(LocalEtag(hs) # Strip(etag))

\* upload: check_integrity and the final sys.exit
CheckIntegrity ==
    /\ pc = "check_integrity"
    /\ headCalls' = headCalls + 1
    /\ \/ Exit("ObjectNotFound") /\ UNCHANGED remote_etag
       \/ \E etag \in RemoteEtags(hashes) :
            /\ remote_etag' = etag
            /\ IF IntegrityOk(etag, hashes)
               THEN Exit("Success")
               ELSE Exit("IntegrityMismatch")
    /\ UNCHANGED <<envVars, is_stdin, pos, reads, localVars, session, sessionId,
                   createCalls, uploadCalls, completeCalls, abortCalls>>
    /\ UNCHANGED checks

Next ==
    \/ CheckFileOrStdin
    \/ ParseKeyfile
    \/ Boto3Client
    \/ HeadBucket
    \/ HeadObjectExists
    \/ OpenInput
    \/ CreateMultipartUpload
    \/ ReadChunk
    \/ UploadPart
    \/ Sleep
    \/ RetryLoopExit
    \/ FinalCheck
    \/ CleanUp
    \/ CompleteMultipartUpload
    \/ CheckIntegrity

Spec == Init /\ [][Next]_vars

\* the run is one sequential process that is never suspended: a step that
\* can be taken is eventually taken
FairSpec == Spec /\ WF_vars(Next)

TypeOK ==
    /\ num \in 0..MaxLen
    /\ pos \in 0..Len(input)
    /\ upload_try \in 0..retry
    /\ exitcode \in {NoExit} \cup 0..8

\* ---- vocabulary of the properties ----

\* open-session succeeded in this run
SessionOpened == sessionId # 0
\* the run has ended
Ended == pc = "exited"
\* the indices of the upload_part calls made for part n
CallsFor(n) == {i \in DOMAIN uploadCalls : uploadCalls[i].PartNumber = n}
\* some attempt for part n returned the tag that matches the chunk
Succeeded(n) == \E i \in CallsFor(n) : uploadCalls[i].result = "good"
\* part n was attempted maxRetries times and every attempt failed
PartFailed(n) ==
    /\ retry >= 1
    /\ Cardinality(CallsFor(n)) = retry
    /\ ~Succeeded(n)
\* the chunk of part n: input bytes (n-1)*C .. min(n*C, L)-1
ChunkOf(n) == SubSeq(input, (n - 1) * chunksize + 1, Min(n * chunksize, Len(input)))
CeilDiv(a, b) == (a + b - 1) \div b
\* the stream is exhausted and the loop over the chunks has been left
EndOfStream == pc \in {"final_check", "clean_up", "complete", "check_integrity"}
                  \/ (Ended /\ SessionOpened)

\* C1: once a part has failed all of its maxRetries attempts, no further
\* chunk is read and no upload-part call for a higher index is issued: a
\* failed part is the last part the run ever numbers.
C1_NoReadAfterExhaustion ==
    \A n \in 1..num :
        PartFailed(n) =>
            /\ num = n
            /\ \A i \in DOMAIN uploadCalls : uploadCalls[i].PartNumber <= n

\* C2: when open-session succeeded and some part, at any position, failed all
\* of its attempts, the run ends aborted: abort-session is invoked exactly
\* once with the session's id and complete-session is never invoked.
C2_AnyFailedPartAborts ==
    (Ended /\ SessionOpened /\ \E n \in 1..num : PartFailed(n)) =>
        /\ Len(abortCalls) = 1
        /\ abortCalls[1].UploadId = sessionId
        /\ completeCalls = <<>>

\* C3: when every part eventually succeeded, the PartList passed to
\* complete-session has exactly one entry per index 1..N, ascending, without
\* gaps or duplicates, each carrying the tag of the successful attempt.
C3_PartListExact ==
    \A c \in DOMAIN completeCalls :
        (\A n \in 1..num : Succeeded(n)) =>
            /\ Len(completeCalls[c].Parts) = num
            /\ \A k \in 1..Len(completeCalls[c].Parts) :
                   completeCalls[c].Parts[k] = PartEntry(k, GoodTag(ChunkOf(k)))

\* C4: in every reachable state every entry of the PartList has a backend tag
\* equal to the content checksum of that part's chunk; a mismatching attempt
\* adds no entry.
C4_PartListTagsMatch ==
    \A k \in DOMAIN parts :
        Slice1(parts[k].ETag) = hexdigest(md5(ChunkOf(parts[k].PartNumber)))

\* C5: when every part of a non-empty stream was uploaded successfully on some
\* attempt k with 1 <= k <= maxRetries, the run finalizes at end of stream:
\* complete-session is invoked and abort-session is never invoked.
C5_SuccessFinalizes ==
    (Ended /\ SessionOpened /\ num >= 1 /\ \A n \in 1..num : Succeeded(n)) =>
        /\ Len(completeCalls) = 1
        /\ abortCalls = <<>>

\* no upload_part call of the run failed, and attempts are allowed at all
NoUploadFailures ==
    /\ retry >= 1
    /\ \A i \in DOMAIN uploadCalls : uploadCalls[i].result = "good"

\* exactly ceil(L/C) parts were uploaded, part i carrying its byte range
ChunkingExact ==
    /\ Len(uploadCalls) = CeilDiv(Len(input), chunksize)
    /\ \A i \in DOMAIN uploadCalls :
          /\ uploadCalls[i].PartNumber = i
          /\ uploadCalls[i].Body = ChunkOf(i)
          /\ Len(uploadCalls[i].Body) \in 1..chunksize
          /\ (i < Len(uploadCalls) => Len(uploadCalls[i].Body) = chunksize)

\* C6: for L >= 1 and C >= 1, a run without upload failures uploads exactly
\* ceil(L/C) parts, part i carrying input bytes (i-1)*C .. min(i*C, L)-1, and
\* complete-session receives exactly ceil(L/C) parts.
C6_ChunkingAndComplete ==
    (Len(input) >= 1 /\ NoUploadFailures /\ EndOfStream) =>
        /\ ChunkingExact
        /\ Ended =>
              /\ Len(completeCalls) = 1
              /\ Len(completeCalls[1].Parts) = CeilDiv(Len(input), chunksize)

\* C7: with an input of length 0 and an open session, no upload-part call is
\* made and the session is finalized at once: complete-session is invoked with
\* the empty PartList and the run ends Completed or CompleteFailed, never
\* aborted and never outside the session state machine.
C7_EmptyInputFinalizes ==
    (Ended /\ SessionOpened /\ Len(input) = 0) =>
        /\ uploadCalls = <<>>
        /\ Len(completeCalls) = 1
        /\ completeCalls[1].Parts = <<>>
        /\ abortCalls = <<>>
        /\ error \in {"Success", "IntegrityMismatch", "ObjectNotFound", "CompleteFailed"}

\* C8: whenever a run with an open session has ended, the backend session is
\* no longer open: it was completed or aborted.
C8_NoOrphanedSession ==
    (Ended /\ SessionOpened) => session \in {"completed", "aborted"}

\* C9: by the end of a run with an open session exactly one of
\* complete-session and abort-session has been invoked, exactly once, with the
\* id returned by open-session.
C9_ExactlyOneTerminalCall ==
    (Ended /\ SessionOpened) =>
        /\ Len(completeCalls) + Len(abortCalls) = 1
        /\ \A i \in DOMAIN completeCalls : completeCalls[i].UploadId = sessionId
        /\ \A i \in DOMAIN abortCalls : abortCalls[i].UploadId = sessionId

FailureKinds == {"SessionInitFailed", "PartUploadFailed", "CompleteFailed",
                 "ObjectNotFound", "IntegrityMismatch"}
PreconditionKinds == {"InputError", "KeyfileUnreadable", "KeyfileMalformed",
                      "ConnectionFailed", "BucketUnavailable", "ObjectExists"}

\* C10: a run that ends with one of the failure kinds ends with a result code
\* that no other failure kind, no precondition error and not success uses.
C10_FailureCodesDistinct ==
    (Ended /\ error \in FailureKinds) =>
        \A k \in (FailureKinds \cup PreconditionKinds \cup {"Success"}) \ {error} :
            ExitCode(k) # exitcode

\* C11: for a non-empty list of part checksums check_integrity answers true
\* exactly when the reported tag, stripped of its quotes, is the composite of
\* the list (checksum of the part checksums in index order, dash, part
\* count); a tag that differs only in the part count or only in the order of
\* the part checksums is answered false.
C11_IntegrityRoundTrip ==
    (Ended /\ error \in {"Success", "IntegrityMismatch"}) =>
        /\ hashes # <<>>
        /\ (error = "Success") <=> (Strip(remote_etag) = S3Etag(hashes))
        /\ Strip(remote_etag) = CompositeTag(PartDigests(hashes), Len(hashes) + 1)
              => error = "IntegrityMismatch"
        /\ (Reverse(hashes) # hashes /\ Strip(remote_etag) = S3Etag(Reverse(hashes)))
              => error = "IntegrityMismatch"

\* a run whose reported tag had the part checksums in the wrong order
C11_Witness ==
    /\ Ended
    /\ error = "IntegrityMismatch"
    /\ Len(hashes) >= 2
    /\ Reverse(hashes) # hashes
    /\ remote_etag = Quoted(S3Etag(Reverse(hashes)))

\* a run whose reported tag was the composite and was accepted
C11_WitnessAccepted ==
    /\ Ended
    /\ error = "Success"
    /\ Len(hashes) >= 2
    /\ remote_etag = Quoted(S3Etag(hashes))

\* part n has terminally succeeded or terminally failed: one of its attempts
\* returned the matching tag, or all maxRetries attempts were made
PartTerminal(n) == Succeeded(n) \/ Cardinality(CallsFor(n)) = retry

\* C12: a read of the input stream happens only when the upload of the
\* current part, with all its retries and retry sleeps, has terminally
\* succeeded or failed; the upload-part calls follow one another in part order.
C12_SequentialReads ==
    [][reads' # reads =>
          /\ pc = "read"
          /\ num = 0 \/ PartTerminal(num)
          /\ \A i \in DOMAIN uploadCalls : uploadCalls[i].PartNumber <= num]_vars

\* a second chunk was read after the first part needed several attempts
C12_Witness ==
    /\ num >= 2
    /\ Cardinality(CallsFor(1)) >= 2
    /\ pc = "retry_loop"

\* C13: when complete-session fails the run ends with CompleteFailed:
\* complete-session is not invoked a second time, abort-session is not
\* invoked, nothing is returned to upload and integrity verification never
\* runs.
C13_CompleteFailedIsTerminal ==
    (\E i \in DOMAIN completeCalls : ~completeCalls[i].ok) =>
        /\ Ended
        /\ error = "CompleteFailed"
        /\ Len(completeCalls) = 1
        /\ abortCalls = <<>>
        /\ headCalls = 0
        /\ remote_etag = <<>>

\* a run of several parts whose completion failed
C13_Witness ==
    /\ Len(completeCalls) = 1
    /\ ~completeCalls[1].ok
    /\ Len(completeCalls[1].Parts) >= 2

\* C14: when open-session fails the run ends with SessionInitFailed without
\* reading a chunk and without invoking upload-part, complete-session,
\* abort-session or the head-object verification.
C14_InitFailedIsTerminal ==
    (createCalls >= 1 /\ ~SessionOpened) =>
        /\ Ended
        /\ error = "SessionInitFailed"
        /\ createCalls = 1
        /\ reads = 0
        /\ pos = 0
        /\ uploadCalls = <<>>
        /\ completeCalls = <<>>
        /\ abortCalls = <<>>
        /\ headCalls = 0

\* a run with a non-empty input whose open-session failed
C14_Witness ==
    /\ createCalls = 1
    /\ ~SessionOpened
    /\ Len(input) >= 1
    /\ error = "SessionInitFailed"

\* C15: whenever complete-session has succeeded, the part checksums handed to
\* the integrity verifier have exactly one entry for each entry of the
\* PartList passed to complete-session, in the same index order and computed
\* over that part's chunk; the part count of the local composite equals the
\* number of parts passed to complete-session.
C15_HashesMatchPartList ==
    \A c \in DOMAIN completeCalls :
        completeCalls[c].ok =>
            /\ Len(hashes) = Len(completeCalls[c].Parts)
            /\ \A k \in DOMAIN completeCalls[c].Parts :
                  /\ k \in DOMAIN hashes
                  /\ hashes[k] = md5(ChunkOf(completeCalls[c].Parts[k].PartNumber))

\* C16: for every part at most maxRetries upload-part attempts are made; all
\* attempts for a part carry the same index (the count of chunks read), the
\* same chunk bytes and the same content checksum; no attempt follows an
\* attempt of the same part that succeeded with a matching tag.
C16_BoundedIdenticalAttempts ==
    /\ \A n \in 1..num : Cardinality(CallsFor(n)) <= retry
    /\ \A i \in DOMAIN uploadCalls :
          /\ uploadCalls[i].PartNumber \in 1..num
          /\ uploadCalls[i].Body = ChunkOf(uploadCalls[i].PartNumber)
          /\ uploadCalls[i].ContentLength = Len(uploadCalls[i].Body)
          /\ uploadCalls[i].ContentMD5 = b64encode(digest(md5(uploadCalls[i].Body)))
          /\ uploadCalls[i].UploadId = upload_id
          /\ uploadCalls[i].try = Cardinality({j \in CallsFor(uploadCalls[i].PartNumber) : j <= i})
    /\ \A i, j \in DOMAIN uploadCalls :
          (i < j /\ uploadCalls[i].PartNumber = uploadCalls[j].PartNumber)
              => uploadCalls[i].result # "good"

\* a part that used all its attempts and succeeded at the last one,
\* followed by the upload of the next part
C16_Witness ==
    /\ retry >= 2
    /\ num >= 2
    /\ Cardinality(CallsFor(1)) = retry
    /\ Succeeded(1)
    /\ CallsFor(2) # {}

\* C17: at every point of a run the StreamDigest covers exactly the
\* concatenation, in read order, of the chunks read so far, each once
\* whatever the number of upload attempts; when the session is completed it
\* covers the whole input.
C17_StreamDigestCoversReads ==
    /\ pos = Min(num * chunksize, Len(input))
    /\ in_md5sum = md5(SubSeq(input, 1, pos))
    /\ session = "completed" => in_md5sum = md5(input)

\* a completed session of several chunks, one of which needed a retry
C17_Witness ==
    /\ session = "completed"
    /\ num >= 2
    /\ Len(uploadCalls) > num
    /\ in_md5sum = md5(input)

\* the checks create_client and check_file_or_stdin passed, in order, when
\* the run may open a session
PassedChecks(src) == <<src, "keyfile:ok", "client:ok", "head_bucket:ok", "head_object:absent">>

\* C18: open-session is invoked only after the input-source check accepted
\* exactly one of stdin and file path, head-bucket succeeded and head-object
\* reported that the object does not exist; when the object exists the run
\* ends with the object-already-exists error and no session is opened.
C18_OpenOnlyAfterPreconditions ==
    /\ createCalls >= 1 =>
          /\ isatty <=> infile # "-"
          /\ checks = PassedChecks(IF isatty THEN "input:file" ELSE "input:stdin")
    /\ error = "ObjectExists" =>
          /\ Ended
          /\ exitcode = 6
          /\ createCalls = 0
          /\ session = "none"
          /\ reads = 0

\* a session opened for an input read from a file path
C18_Witness ==
    /\ createCalls = 1
    /\ SessionOpened
    /\ ~is_stdin
    /\ infile = "path"

\* a run stopped because the object exists
C18_WitnessExists ==
    /\ error = "ObjectExists"
    /\ Len(checks) = 4

\* the terminal outcomes of the session state machine: Completed, Aborted,
\* or one of the terminal errors SessionInitFailed and CompleteFailed
ListedOutcome ==
    \/ session = "completed"
    \/ abortCalls # <<>>
    \/ error \in {"SessionInitFailed", "CompleteFailed"}

\* C19: for every finite input, every maxRetries >= 0 and every pattern of
\* backend failures the run terminates: at most maxRetries upload-part calls
\* per chunk read, at most one complete-session or abort-session call, and
\* eventually one of the outcomes Completed, Aborted, SessionInitFailed or
\* CompleteFailed.
C19_TerminatesInListedOutcome ==
    /\ [](\A n \in 1..num : Cardinality(CallsFor(n)) <= retry)
    /\ [](Len(completeCalls) + Len(abortCalls) <= 1)
    /\ (createCalls >= 1) ~> (Ended /\ ListedOutcome)

====
